---------------------------- MODULE Spec2Model ----------------------------
(***************************************************************************)
(* Model of the retrieval-augmented NL-to-SQL service:                     *)
(*   src/metadata_extractor.py  schema extraction (extract_metadata,       *)
(*                              load_schema_documents)                     *)
(*   src/main.py                startup (initialize_rag_components,        *)
(*                              lifespan), GET /health, POST /query        *)
(*                                                                         *)
(* Text is a sequence of tokens; a Python value that may be None, a str or *)
(* a dict is a record [type, text].                                        *)
(***************************************************************************)
EXTENDS Integers, Sequences, FiniteSets, TLC

VARIABLES
    apiKey,              \* OPENAI_API_KEY is set and non-empty
    database,            \* the relations present in the PostgreSQL database
    llm,                 \* the six module globals of main.py: TRUE = constructed,
    embeddings_model,    \*   FALSE = None
    db_engine,
    vectorstore,
    qa_chain,
    sql_agent_executor,
    collection,          \* the persistent Chroma collection "schema_embeddings"
    initPc,              \* position of lifespan / initialize_rag_components
    attempt,             \* loop variable of the retry loop
    slept,               \* seconds spent in time.sleep by this startup
    schema_docs,         \* local of initialize_rag_components
    startups,            \* process starts so far
    extraction,          \* what the database did in the last extraction
    tasks,               \* the handle_query coroutines
    health               \* the last HealthCheckResponse

vars == <<apiKey, database, llm, embeddings_model, db_engine, vectorstore,
          qa_chain, sql_agent_executor, collection, initPc, attempt, slept,
          schema_docs, startups, extraction, tasks, health>>

globals == <<llm, embeddings_model, db_engine, vectorstore, qa_chain,
             sql_agent_executor>>

---------------------------------------------------------------------------
(* Python values                                                           *)

None == [type |-> "none", text |-> <<>>]

Str(s) == [type |-> "str", text |-> s]

Dict(s) == [type |-> "dict", text |-> s]

IsNone(v) == v.type = "none"


\* sep.join(parts)
RECURSIVE Join(_, _)
Join(parts, sep) ==
    IF parts = <<>> THEN <<>>
    ELSE IF Len(parts) = 1 THEN parts[1]
    ELSE parts[1] \o sep \o Join(Tail(parts), sep)

Whitespace == {"\n", " "}

\* str.strip(): leading and trailing whitespace removed
RECURSIVE LStrip(_)
LStrip(s) == IF s # <<>> /\ Head(s) \in Whitespace THEN LStrip(Tail(s)) ELSE s

RECURSIVE RStrip(_)
RStrip(s) ==
    IF s # <<>> /\ s[Len(s)] \in Whitespace
    THEN RStrip(SubSeq(s, 1, Len(s) - 1)) ELSE s

Strip(s) == RStrip(LStrip(s))

Contains(s, tok) == \E i \in 1..Len(s) : s[i] = tok

---------------------------------------------------------------------------
(* The database: relations as PostgreSQL's information_schema shows them   *)

Col(name, type, comment) == [name |-> name, type |-> type, comment |-> comment]

\* The relations a database may hold, in (schema, name) order.
Catalog ==
    << [schema |-> "pg_catalog", name |-> "pg_class", kind |-> "table",
        comment |-> "", definition |-> "",
        columns |-> <<Col("relname", "name", "")>>],
       [schema |-> "public", name |-> "invoices", kind |-> "table",
        comment |-> "",
        definition |-> "",
        columns |-> <<Col("amount", "numeric", "The total amount of the invoice.")>>],
       [schema |-> "sales", name |-> "active_contracts_view", kind |-> "view",
        comment |-> "A view showing currently active contracts.",
        definition |-> "SELECT contract_id FROM sales.contracts WHERE status = 'Active'",
        columns |-> <<Col("contract_id", "integer", "")>>],
       [schema |-> "sales", name |-> "contracts", kind |-> "table",
        comment |-> "Stores information about sales contracts.",
        definition |-> "",
        columns |-> <<Col("contract_id", "integer", "Unique identifier for the contract."),
                      Col("status", "character varying", "")>>],
       [schema |-> "sales", name |-> "marker", kind |-> "table",
        comment |-> "", definition |-> "",
        columns |-> <<>>] >>

Databases == SUBSET (1..Len(Catalog))

\* databases the service is started against: empty, nothing selected,
\* one table, tables and a view
StartupDatabases == {{}, {1, 5}, {4}, {2, 3, 4}}

\* WHERE table_schema NOT IN (...) AND table_schema NOT LIKE 'pg_temp_%'
SchemaSelected(schema) ==
    /\ schema \notin {"pg_catalog", "information_schema", "pg_toast"}
    /\ schema \notin {"pg_temp_1"}

\* information_schema.columns has one row per column of every table AND view.
RECURSIVE ColumnRows(_, _)
ColumnRows(rel, i) ==
    IF i > Len(rel.columns) THEN <<>>
    ELSE << <<rel.schema, rel.name, rel.columns[i].name, rel.columns[i].type,
              rel.columns[i].comment, rel.comment>> >>
         \o ColumnRows(rel, i + 1)

\* Result of table_column_query: ORDER BY table_schema, table_name, ordinal_position.
RECURSIVE TableColumnQuery(_, _)
TableColumnQuery(db, i) ==
    IF i > Len(Catalog) THEN <<>>
    ELSE (IF i \in db /\ SchemaSelected(Catalog[i].schema)
          THEN ColumnRows(Catalog[i], 1) ELSE <<>>)
         \o TableColumnQuery(db, i + 1)

\* Result of view_query: one row per view in information_schema.views.
RECURSIVE ViewQuery(_, _)
ViewQuery(db, i) ==
    IF i > Len(Catalog) THEN <<>>
    ELSE (IF i \in db /\ Catalog[i].kind = "view" /\ SchemaSelected(Catalog[i].schema)
          THEN << <<Catalog[i].schema, Catalog[i].name, Catalog[i].definition,
                    Catalog[i].comment>> >>
          ELSE <<>>)
         \o ViewQuery(db, i + 1)

---------------------------------------------------------------------------
(* metadata_extractor.extract_metadata                                     *)

Document(content, meta) == [page_content |-> content, metadata |-> meta]

\* tables_data as a sequence of entries in dict insertion order
KeyIndex(tables_data, schema, table) ==
    {k \in 1..Len(tables_data) :
        tables_data[k].schema = schema /\ tables_data[k].name = table}

RECURSIVE GroupRows(_, _)
GroupRows(rows, tables_data) ==
    IF rows = <<>> THEN tables_data
    ELSE LET row == Head(rows)
             col == [name |-> row[3], type |-> row[4], comment |-> row[5]]
             at  == KeyIndex(tables_data, row[1], row[2])
         IN IF at = {}
            THEN GroupRows(Tail(rows),
                     Append(tables_data,
                            [schema |-> row[1], name |-> row[2],
                             comment |-> row[6], columns |-> <<col>>]))
            ELSE LET k == CHOOSE x \in at : TRUE
                 IN GroupRows(Tail(rows),
                        [tables_data EXCEPT ![k].columns = Append(@, col)])

RECURSIVE ColumnLines(_)
ColumnLines(cols) ==
    IF cols = <<>> THEN <<>>
    ELSE <<"  - ", Head(cols).name, " (", Head(cols).type, ")">>
         \o (IF Head(cols).comment # "" THEN <<": ", Head(cols).comment>> ELSE <<>>)
         \o <<"\n">>
         \o ColumnLines(Tail(cols))

TableDocContent(data) ==
    <<"Table: ", data.name, " (Schema: ", data.schema, ")", "\n">>
    \o (IF data.comment # "" THEN <<"Comment: ", data.comment, "\n">> ELSE <<>>)
    \o <<"Columns:", "\n">>
    \o ColumnLines(data.columns)

TableDocument(data) ==
    Document(Strip(TableDocContent(data)),
             [source_type |-> "table", name |-> data.name,
              schema_name |-> data.schema])

RECURSIVE TableDocuments(_)
TableDocuments(tables_data) ==
    IF tables_data = <<>> THEN <<>>
    ELSE <<TableDocument(Head(tables_data))>> \o TableDocuments(Tail(tables_data))

ViewDocContent(row) ==
    <<"View: ", row[2], " (Schema: ", row[1], ")", "\n">>
    \o (IF row[4] # "" THEN <<"Comment: ", row[4], "\n">> ELSE <<>>)
    \o <<"Definition:", "\n", row[3], "\n">>

ViewDocument(row) ==
    Document(Strip(ViewDocContent(row)),
             [source_type |-> "view", name |-> row[2], schema_name |-> row[1]])

RECURSIVE ViewDocuments(_)
ViewDocuments(rows) ==
    IF rows = <<>> THEN <<>>
    ELSE <<ViewDocument(Head(rows))>> \o ViewDocuments(Tail(rows))

\* mutant: the first failing query aborts the whole extraction
extract_metadata_AllOrNothing(db, tablesOk, viewsOk) ==
    IF tablesOk /\ viewsOk
    THEN TableDocuments(GroupRows(TableColumnQuery(db, 1), <<>>))
         \o ViewDocuments(ViewQuery(db, 1))
    ELSE <<>>

\* tablesOk / viewsOk: whether connection.execute of each query returns;
\* a raising query is caught and contributes no documents.
extract_metadata(db, tablesOk, viewsOk) ==
    (IF tablesOk THEN TableDocuments(GroupRows(TableColumnQuery(db, 1), <<>>))
     ELSE <<>>)
    \o (IF viewsOk THEN ViewDocuments(ViewQuery(db, 1)) ELSE <<>>)

\* connectOk: create_engine / engine.connect succeed; any exception gives [].
load_schema_documents(db, connectOk, tablesOk, viewsOk) ==
    IF connectOk THEN extract_metadata(db, tablesOk, viewsOk) ELSE <<>>


---------------------------------------------------------------------------
(* main.initialize_rag_components and lifespan                             *)

max_retries == 5

retry_delay == 10

\* Process starts after the first one (Docker restarts the container).
MaxRestarts == 1

PlaceholderDocument ==
    Document(<<"No schema information available.">>,
             [source_type |-> "placeholder", name |-> "", schema_name |-> ""])

\* mutant: an empty document list is indexed as it is
OrPlaceholder_Keep(docs) == docs

\* if not schema_docs: schema_docs = [placeholder]
OrPlaceholder(docs) == IF docs = <<>> THEN <<PlaceholderDocument>> ELSE docs

\* handlers run on the event loop, which the synchronous initialization blocks
Serving == initPc \in {"not_started", "ready", "failed"}

IdleTask ==
    [pc |-> "idle", query |-> "", context |-> None, prompt |-> <<>>,
     retrieval |-> "none", retrievalError |-> "", agent |-> "none",
     agentCalls |-> 0, steps |-> <<>>, status |-> 0,
     sql_query |-> None, result |-> None, error |-> None,
     context_from_vector_db |-> None]

\* the requests in flight: one handle_query coroutine each
Tasks == {"t1"}

\* services_status of a response: TRUE stands for "Initialized"
NoServices ==
    [llm |-> FALSE, embeddings_model |-> FALSE, sql_database_engine |-> FALSE,
     vector_store |-> FALSE, qa_chain |-> FALSE, sql_agent_executor |-> FALSE,
     postgresql_connection |-> "", chromadb_connection |-> ""]

\* no response yet; dbUp and chromaUp record what the two servers did
NoHealth ==
    [status |-> "none", services |-> NoServices, dbUp |-> FALSE, chromaUp |-> FALSE]

NoExtraction == [connectOk |-> FALSE, tablesOk |-> FALSE, viewsOk |-> FALSE]

\* what earlier processes left in the collection of the Chroma service
PriorCollections == {<<>>, <<PlaceholderDocument>>}

Init ==
    /\ apiKey \in BOOLEAN
    /\ database \in StartupDatabases
    /\ llm = FALSE /\ embeddings_model = FALSE /\ db_engine = FALSE
    /\ vectorstore = FALSE /\ qa_chain = FALSE /\ sql_agent_executor = FALSE
    /\ collection \in PriorCollections
    /\ initPc = "not_started"
    /\ attempt = 0
    /\ slept = 0
    /\ schema_docs = <<>>
    /\ startups = 0
    /\ extraction = NoExtraction
    /\ tasks = [t \in Tasks |-> IdleTask]
    /\ health = NoHealth

\* mutant: initialization goes on without the key
StartInitialize_NoKeyCheck ==
    /\ initPc = "not_started"
    /\ \A t \in DOMAIN tasks : tasks[t].pc \in {"idle", "done", "rejected"}
    /\ initPc' = "models"
    /\ UNCHANGED <<apiKey, database, globals, collection, attempt, slept,
                   schema_docs, startups, extraction, tasks, health>>

\* lifespan calls initialize_rag_components; step 0 reads OPENAI_API_KEY
StartInitialize ==
    /\ initPc = "not_started"
    /\ \A t \in DOMAIN tasks : tasks[t].pc \in {"idle", "done", "rejected"}
    /\ initPc' = IF apiKey THEN "models" ELSE "failed"
    /\ UNCHANGED <<apiKey, database, globals, collection, attempt, slept,
                   schema_docs, startups, extraction, tasks, health>>

\* mutant: an exception of a model constructor is logged and swallowed
InitModels_Swallow ==
    /\ initPc = "models"
    /\ \E outcome \in {"ok", "llm_raises", "embeddings_raise"} :
        /\ llm' = (outcome # "llm_raises")
        /\ embeddings_model' = (outcome = "ok")
        /\ initPc' = "db"
    /\ UNCHANGED <<apiKey, database, db_engine, vectorstore, qa_chain,
                   sql_agent_executor, collection, attempt, slept, schema_docs,
                   startups, extraction, tasks, health>>

\* step 1: ChatOpenAI, then OpenAIEmbeddings; an exception is re-raised
InitModels ==
    /\ initPc = "models"
    /\ \E outcome \in {"ok", "llm_raises", "embeddings_raise"} :
        /\ llm' = (outcome # "llm_raises")
        /\ embeddings_model' = (outcome = "ok")
        /\ initPc' = IF outcome = "ok" THEN "db" ELSE "failed"
    /\ UNCHANGED <<apiKey, database, db_engine, vectorstore, qa_chain,
                   sql_agent_executor, collection, attempt, slept, schema_docs,
                   startups, extraction, tasks, health>>

\* step 2: SQLDatabase.from_uri, then the connection test; re-raised on failure
InitDbEngine ==
    /\ initPc = "db"
    /\ \E outcome \in {"ok", "from_uri_raises", "test_raises"} :
        /\ db_engine' = (outcome # "from_uri_raises")
        /\ initPc' = IF outcome = "ok" THEN "load" ELSE "failed"
    /\ attempt' = 0
    /\ UNCHANGED <<apiKey, database, llm, embeddings_model, vectorstore, qa_chain,
                   sql_agent_executor, collection, slept, schema_docs, startups, extraction,
                   tasks, health>>

\* mutant: one attempt too many before giving up
AfterAttemptFailure_OffByOne == IF attempt = max_retries THEN "failed" ELSE "sleep"

\* the except clause of the retry loop: re-raise on the last attempt, else sleep
AfterAttemptFailure == IF attempt + 1 = max_retries THEN "failed" ELSE "sleep"

\* mutant: a refused connection propagates out of load_schema_documents and
\* fails the attempt
LoadSchemaDocuments_Raises ==
    /\ initPc = "load"
    /\ \E connectOk \in BOOLEAN, tablesOk \in BOOLEAN, viewsOk \in BOOLEAN :
        /\ connectOk \/ (~tablesOk /\ ~viewsOk)
        /\ extraction' = [connectOk |-> connectOk, tablesOk |-> tablesOk,
                          viewsOk |-> viewsOk]
        /\ schema_docs' =
            IF connectOk
            THEN OrPlaceholder(load_schema_documents(database, connectOk, tablesOk, viewsOk))
            ELSE schema_docs
        /\ initPc' = IF connectOk THEN "chroma" ELSE AfterAttemptFailure
    /\ UNCHANGED <<apiKey, database, globals, collection, attempt, slept,
                   startups, tasks, health>>

\* loop body, first part: load_schema_documents and the empty check
LoadSchemaDocuments ==
    /\ initPc = "load"
    /\ \E connectOk \in BOOLEAN, tablesOk \in BOOLEAN, viewsOk \in BOOLEAN :
        /\ connectOk \/ (~tablesOk /\ ~viewsOk)
        /\ extraction' = [connectOk |-> connectOk, tablesOk |-> tablesOk,
                          viewsOk |-> viewsOk]
        /\ schema_docs' =
            OrPlaceholder(load_schema_documents(database, connectOk, tablesOk, viewsOk))
    /\ initPc' = "chroma"
    /\ UNCHANGED <<apiKey, database, globals, collection, attempt, slept,
                   startups, tasks, health>>

\* loop body: vectorstore = Chroma(...)
ConstructChroma ==
    /\ initPc = "chroma"
    /\ \E ok \in BOOLEAN :
        /\ vectorstore' = (ok \/ vectorstore)
        /\ initPc' = IF ok THEN "add" ELSE AfterAttemptFailure
    /\ UNCHANGED <<apiKey, database, llm, embeddings_model, db_engine, qa_chain,
                   sql_agent_executor, collection, attempt, slept, schema_docs,
                   startups, extraction, tasks, health>>

\* loop body: count() == 0 or True, add_documents(schema_docs), break
AddDocuments ==
    /\ initPc = "add"
    /\ \E ok \in BOOLEAN :
        /\ collection' = IF ok THEN collection \o schema_docs ELSE collection
        /\ initPc' = IF ok THEN "qa" ELSE AfterAttemptFailure
    /\ UNCHANGED <<apiKey, database, globals, attempt, slept, schema_docs,
                   startups, extraction, tasks, health>>

\* time.sleep(retry_delay), then the next iteration
Sleep ==
    /\ initPc = "sleep"
    /\ slept' = slept + retry_delay
    /\ attempt' = attempt + 1
    /\ initPc' = "load"
    /\ UNCHANGED <<apiKey, database, globals, collection, schema_docs, startups, extraction,
                   tasks, health>>

\* step 4: retriever and RetrievalQA, or ConnectionError without a vector store
SetupQAChain ==
    /\ initPc = "qa"
    /\ qa_chain' = vectorstore
    /\ initPc' = IF vectorstore THEN "agent" ELSE "failed"
    /\ UNCHANGED <<apiKey, database, llm, embeddings_model, db_engine, vectorstore,
                   sql_agent_executor, collection, attempt, slept, schema_docs,
                   startups, extraction, tasks, health>>

\* step 5: SQL agent, or ConnectionError; on return the locals are gone
SetupSqlAgent ==
    /\ initPc = "agent"
    /\ sql_agent_executor' = (db_engine /\ llm)
    /\ IF db_engine /\ llm
       THEN /\ initPc' = "ready"
            /\ attempt' = 0
            /\ slept' = 0
            /\ schema_docs' = <<>>
            /\ extraction' = NoExtraction
       ELSE /\ initPc' = "failed"
            /\ UNCHANGED <<attempt, slept, schema_docs, extraction>>
    /\ UNCHANGED <<apiKey, database, llm, embeddings_model, db_engine, vectorstore,
                   qa_chain, collection, startups, tasks, health>>

\* the process ends and a new one starts: module globals are None again,
\* the Chroma service keeps its collection
Restart ==
    /\ initPc \in {"ready", "failed"}
    /\ startups < MaxRestarts
    /\ startups' = startups + 1
    /\ llm' = FALSE /\ embeddings_model' = FALSE /\ db_engine' = FALSE
    /\ vectorstore' = FALSE /\ qa_chain' = FALSE /\ sql_agent_executor' = FALSE
    /\ initPc' = "not_started"
    /\ attempt' = 0
    /\ slept' = 0
    /\ schema_docs' = <<>>
    /\ extraction' = NoExtraction
    /\ tasks' = [t \in DOMAIN tasks |-> IdleTask]
    /\ health' = NoHealth
    /\ UNCHANGED <<apiKey, database, collection>>


---------------------------------------------------------------------------
(* main.health_check                                                       *)

\* whether main.py binds the name text used by the database probe: its
\* imports do not (sqlalchemy.text is imported by metadata_extractor.py only)
text_imported == FALSE

all(flags) == \A i \in 1..Len(flags) : flags[i]

any(flags) == \E i \in 1..Len(flags) : flags[i]

\* dbUp: the database answers; evaluating text("SELECT 1") raises NameError
\* when the name is unbound, which the probe's except clause catches
DbProbe(dbUp) ==
    IF ~db_engine THEN [ok |-> FALSE, status |-> "Not Initialized"]
    ELSE IF ~dbUp THEN [ok |-> FALSE, status |-> "Error: connection refused"]
    ELSE IF ~text_imported
         THEN [ok |-> FALSE, status |-> "Error: name 'text' is not defined"]
    ELSE [ok |-> TRUE, status |-> "OK"]

\* chromaUp: vectorstore._client.heartbeat() returns
ChromaProbe(chromaUp) ==
    IF ~vectorstore THEN [ok |-> FALSE, status |-> "Not Initialized or not Chroma"]
    ELSE IF ~chromaUp THEN [ok |-> FALSE, status |-> "Error: heartbeat failed"]
    ELSE [ok |-> TRUE, status |-> "OK"]

ServicesStatus(postgresql, chromadb) ==
    [llm |-> llm, embeddings_model |-> embeddings_model,
     sql_database_engine |-> db_engine, vector_store |-> vectorstore,
     qa_chain |-> qa_chain, sql_agent_executor |-> sql_agent_executor,
     postgresql_connection |-> postgresql, chromadb_connection |-> chromadb]

\* mutant: any missing component makes the status "error"
AppStatus_ErrorWhenAnyMissing(db_ok, chroma_ok) ==
    IF all(<<llm, embeddings_model, db_engine, vectorstore, qa_chain,
             sql_agent_executor, db_ok, chroma_ok>>)
    THEN "ok"
    ELSE IF all(<<llm, embeddings_model, db_engine, vectorstore, qa_chain,
                  sql_agent_executor>>)
         THEN "degraded"
    ELSE "error"

AppStatus(db_ok, chroma_ok) ==
    IF all(<<llm, embeddings_model, db_engine, vectorstore, qa_chain,
             sql_agent_executor, db_ok, chroma_ok>>)
    THEN "ok"
    ELSE IF any(<<llm, embeddings_model, db_engine, vectorstore, qa_chain,
                  sql_agent_executor>>)
         THEN "degraded"
    ELSE "error"

\* mutant: a failed database probe drops the engine
HealthCheck_DropsEngine ==
    /\ Serving
    /\ \E dbUp \in BOOLEAN, chromaUp \in BOOLEAN :
        LET db == DbProbe(dbUp)
            chroma == ChromaProbe(chromaUp)
        IN /\ health' = [status |-> AppStatus(db.ok, chroma.ok),
                         services |-> ServicesStatus(db.status, chroma.status),
                         dbUp |-> dbUp, chromaUp |-> chromaUp]
           /\ db_engine' = (db_engine /\ db.ok)
    /\ UNCHANGED <<apiKey, database, llm, embeddings_model, vectorstore, qa_chain,
                   sql_agent_executor, collection, initPc, attempt, slept,
                   schema_docs, startups, extraction, tasks>>

HealthCheck ==
    /\ Serving
    /\ \E dbUp \in BOOLEAN, chromaUp \in BOOLEAN :
        LET db == DbProbe(dbUp)
            chroma == ChromaProbe(chromaUp)
        IN health' = [status |-> AppStatus(db.ok, chroma.ok),
                      services |-> ServicesStatus(db.status, chroma.status),
                      dbUp |-> dbUp, chromaUp |-> chromaUp]
    /\ UNCHANGED <<apiKey, database, globals, collection, initPc, attempt, slept,
                   schema_docs, startups, extraction, tasks>>

---------------------------------------------------------------------------
(* main.handle_query                                                       *)

K == 3

Queries == {"How many active contracts are there?", "List the invoices."}

Min(a, b) == IF a < b THEN a ELSE b

\* mutant: rejects only when all three are missing
NotReady_AllMissing == ~qa_chain /\ ~sql_agent_executor /\ ~llm

\* mutant: the gate looks at llm only
NotReady_LlmOnly == ~llm

\* the readiness gate: TRUE when the request is rejected with 503
NotReady == ~qa_chain \/ ~sql_agent_executor \/ ~llm

\* mutant: the context starts as the empty string
InitialContext_Empty == <<>>

InitialContext == <<"No context retrieved.">>

RetrievalErrorContext(e) ==
    <<"Error retrieving context: ", e, ". Proceeding without schema context.">>

RECURSIVE PageContents(_)
PageContents(docs) ==
    IF docs = <<>> THEN <<>>
    ELSE <<Head(docs).page_content>> \o PageContents(Tail(docs))

RetrievalErrors == {"vector store timeout", "embedding request failed"}

\* mutant: the retriever returns as many documents as the index ranks
RetrievalOutcomes_Unbounded ==
    {[raised |-> TRUE, e |-> e, docs |-> <<>>] : e \in RetrievalErrors}
    \cup (IF qa_chain
          THEN {[raised |-> FALSE, e |-> "", docs |-> <<>>]}
               \cup UNION {{[raised |-> FALSE, e |-> "",
                             docs |-> SubSeq(collection, first, first + n - 1)] :
                               n \in 1..(Len(collection) - first + 1)} :
                           first \in 1..Len(collection)}
          ELSE {})

\* outcomes of await qa_chain.ainvoke: an exception, or up to K source
\* documents of the collection in the order the index ranks them
RetrievalOutcomes ==
    {[raised |-> TRUE, e |-> e, docs |-> <<>>] : e \in RetrievalErrors}
    \cup (IF qa_chain
          THEN {[raised |-> FALSE, e |-> "", docs |-> <<>>]}
               \cup UNION {{[raised |-> FALSE, e |-> "",
                             docs |-> SubSeq(collection, first, first + n - 1)] :
                               n \in 1..Min(K, Len(collection) - first + 1)} :
                           first \in 1..Len(collection)}
          ELSE {})

\* mutant: a retrieval failure leaves the context as it was
ContextAfterRetrieval_Silent(context, outcome) ==
    IF ~outcome.raised /\ outcome.docs # <<>>
    THEN Join(PageContents(outcome.docs), <<"\n---\n">>)
    ELSE context

\* context_docs_str after the retrieval stage
ContextAfterRetrieval(context, outcome) ==
    IF outcome.raised THEN RetrievalErrorContext(outcome.e)
    ELSE IF outcome.docs # <<>>
         THEN Join(PageContents(outcome.docs), <<"\n---\n">>)
    ELSE context

PromptForSqlAgent(context, query) ==
    <<"Based on the following potentially relevant schema information:\n",
      "--- SCHEMA CONTEXT START ---\n">>
    \o context
    \o <<"\n--- SCHEMA CONTEXT END ---\n\n", "User query: ", query, "\n\n",
         "Generate a SQL query to answer the user query. Then execute it and return the result. ",
         "If the query asks for something not answerable by SQL or the schema, explain why.">>

\* the grave accent, and the text "with " followed by one (tokens of a log)
Backtick == "<grave>"

WithBacktick == "with <grave>"

\* one entry of agent_response['intermediate_steps']
Step(tool, tool_input, log) ==
    [subscriptable |-> TRUE, has_tool |-> TRUE, tool |-> tool,
     tool_input |-> tool_input, has_log |-> TRUE, log |-> log]

SqlText == "SELECT count(*) FROM sales.contracts WHERE status = 'Active'"

StepSqlStr ==
    Step("sql_db_query", Str(<<SqlText>>),
         <<"Invoking \"sql_db_query\"", " ", WithBacktick, "SELECT 1", Backtick, "\n">>)

StepSqlDict ==
    Step("sql_db_query", Dict(<<"query", SqlText>>),
         <<"Invoking: ", Backtick, "sql_db_query", Backtick, " ", WithBacktick, "{'query': ...}", Backtick>>)

StepListTables ==
    Step("sql_db_list_tables", Str(<<>>),
         <<"Invoking: ", Backtick, "sql_db_list_tables", Backtick, " ", WithBacktick, Backtick>>)

StepLogOnly ==
    [subscriptable |-> TRUE, has_tool |-> FALSE, tool |-> "", tool_input |-> None,
     has_log |-> TRUE,
     log |-> <<"Invoking \"sql_db_query\"", " ", WithBacktick, "SELECT 2", Backtick, "\n">>]

StepMalformed ==
    [subscriptable |-> FALSE, has_tool |-> FALSE, tool |-> "", tool_input |-> None,
     has_log |-> FALSE, log |-> <<>>]

AgentTraces ==
    { <<>>, <<StepSqlStr>>, <<StepSqlDict>>, <<StepListTables>>, <<StepLogOnly>>,
      <<StepMalformed>>, <<StepListTables, StepSqlStr>>, <<StepLogOnly, StepSqlStr>>,
      <<StepListTables, StepLogOnly>> }

\* outcomes of await sql_agent_executor.ainvoke
AgentOutcomes ==
    {[raised |-> TRUE, e |-> "model call failed", has_steps |-> FALSE,
      steps |-> <<>>, has_output |-> FALSE, output |-> <<>>]}
    \cup (IF sql_agent_executor
          THEN {[raised |-> FALSE, e |-> "", has_steps |-> hs, steps |-> st,
                 has_output |-> ho, output |-> IF ho THEN <<"42">> ELSE <<>>] :
                    hs \in BOOLEAN, st \in AgentTraces, ho \in BOOLEAN}
          ELSE {})

NotExtracted == <<"SQL query not explicitly extracted from agent steps.">>

FirstIndex(s, tok) == CHOOSE i \in 1..Len(s) : s[i] = tok /\ \A j \in 1..(i-1) : s[j] # tok

RECURSIVE TakeUntil(_, _)
TakeUntil(s, stops) ==
    IF s = <<>> \/ Head(s) \in stops THEN <<>>
    ELSE <<Head(s)>> \o TakeUntil(Tail(s), stops)

LogMatches(log) == Contains(log, "Invoking \"sql_db_query\"") /\ Contains(log, WithBacktick)

\* log_entry.split(WithBacktick)[1].split(Backtick)[0]
SqlFromLog(log) ==
    TakeUntil(SubSeq(log, FirstIndex(log, WithBacktick) + 1, Len(log)),
              {Backtick, WithBacktick})

\* the loop over intermediate_steps: raised when step[0] cannot be taken
RECURSIVE ScanSteps(_)
ScanSteps(steps) ==
    IF steps = <<>> THEN [raised |-> FALSE, sql |-> Str(NotExtracted)]
    ELSE LET step == Head(steps)
         IN IF ~step.subscriptable
            THEN [raised |-> TRUE, sql |-> None]
            ELSE IF step.has_tool /\ step.tool = "sql_db_query"
            THEN [raised |-> FALSE, sql |-> step.tool_input]
            ELSE IF step.has_log /\ LogMatches(step.log)
            THEN [raised |-> FALSE, sql |-> Str(SqlFromLog(step.log))]
            ELSE ScanSteps(Tail(steps))

\* sql_query: Optional[str] -- pydantic rejects any other type
SqlQueryValid(v) == v.type \in {"str", "none"}

\* mutant: the except clause builds the response without the error text
AgentErrorResponse_NoError(e) ==
    [status |-> 200, sql_query |-> None, result |-> None, error |-> None]

\* mutant: the except clause reports the not-extracted sentinel as sql_query
AgentErrorResponse_WithSql(e) ==
    [status |-> 200, sql_query |-> Str(NotExtracted), result |-> None,
     error |-> Str(<<"Error in SQL agent: ", e>>)]

AgentErrorResponse(e) ==
    [status |-> 200, sql_query |-> None, result |-> None,
     error |-> Str(<<"Error in SQL agent: ", e>>)]

\* the body of the try block around the agent call, and its except clause
AgentStage(outcome) ==
    IF outcome.raised THEN AgentErrorResponse(outcome.e)
    ELSE LET scan == IF outcome.has_steps THEN ScanSteps(outcome.steps)
                     ELSE [raised |-> FALSE, sql |-> Str(NotExtracted)]
             final_answer == IF outcome.has_output THEN outcome.output
                             ELSE <<"No output from SQL agent.">>
         IN IF scan.raised THEN AgentErrorResponse("tuple index out of range")
            ELSE IF ~SqlQueryValid(scan.sql)
            THEN AgentErrorResponse("1 validation error for QueryResponse")
            ELSE [status |-> 200, sql_query |-> scan.sql,
                  result |-> Str(final_answer), error |-> None]

\* entry of handle_query up to the first await
ReceiveQuery(t) ==
    /\ Serving
    /\ tasks[t].pc = "idle"
    /\ \E q \in Queries :
        tasks' = [tasks EXCEPT ![t] =
            IF NotReady
            THEN [@ EXCEPT !.pc = "rejected", !.query = q, !.status = 503]
            ELSE [@ EXCEPT !.pc = "retrieve", !.query = q,
                           !.context = Str(InitialContext)]]
    /\ UNCHANGED <<apiKey, database, globals, collection, initPc, attempt, slept,
                   schema_docs, startups, extraction, health>>

\* mutant: the context string is kept in a module global, so a request
\* waiting for its agent sees the context of the request that retrieved last
Retrieve_SharedContext(t) ==
    /\ Serving
    /\ tasks[t].pc = "retrieve"
    /\ \E outcome \in RetrievalOutcomes :
        LET context == ContextAfterRetrieval(tasks[t].context.text, outcome)
        IN tasks' = [u \in DOMAIN tasks |->
              IF u = t
              THEN [tasks[u] EXCEPT !.pc = "agent",
                        !.retrieval = IF outcome.raised THEN "raised" ELSE "returned",
                        !.retrievalError = outcome.e,
                        !.context = Str(context),
                        !.prompt = PromptForSqlAgent(context, tasks[t].query)]
              ELSE IF tasks[u].pc = "agent"
                   THEN [tasks[u] EXCEPT !.context = Str(context)]
              ELSE tasks[u]]
    /\ UNCHANGED <<apiKey, database, globals, collection, initPc, attempt, slept,
                   schema_docs, startups, extraction, health>>

\* await qa_chain.ainvoke, the context string and the agent prompt
Retrieve(t) ==
    /\ Serving
    /\ tasks[t].pc = "retrieve"
    /\ \E outcome \in RetrievalOutcomes :
        LET context == ContextAfterRetrieval(tasks[t].context.text, outcome)
        IN tasks' = [tasks EXCEPT ![t] =
              [@ EXCEPT !.pc = "agent",
                        !.retrieval = IF outcome.raised THEN "raised" ELSE "returned",
                        !.retrievalError = outcome.e,
                        !.context = Str(context),
                        !.prompt = PromptForSqlAgent(context, tasks[t].query)]]
    /\ UNCHANGED <<apiKey, database, globals, collection, initPc, attempt, slept,
                   schema_docs, startups, extraction, health>>

\* mutant: the agent is called again after its first failure
RunAgent_RetryOnError(t) ==
    /\ Serving
    /\ tasks[t].pc = "agent"
    /\ \E outcome \in AgentOutcomes :
        LET r == AgentStage(outcome)
        IN tasks' = [tasks EXCEPT ![t] =
              [@ EXCEPT !.pc = IF outcome.raised /\ tasks[t].agentCalls = 0
                               THEN "agent" ELSE "done",
                        !.agent = IF outcome.raised THEN "raised" ELSE "returned",
                        !.agentCalls = @ + 1,
                        !.steps = IF outcome.has_steps THEN outcome.steps ELSE <<>>,
                        !.status = r.status,
                        !.sql_query = r.sql_query,
                        !.result = r.result,
                        !.error = r.error,
                        !.context_from_vector_db = tasks[t].context]]
    /\ UNCHANGED <<apiKey, database, globals, collection, initPc, attempt, slept,
                   schema_docs, startups, extraction, health>>

\* await sql_agent_executor.ainvoke and the response
RunAgent(t) ==
    /\ Serving
    /\ tasks[t].pc = "agent"
    /\ \E outcome \in AgentOutcomes :
        LET r == AgentStage(outcome)
        IN tasks' = [tasks EXCEPT ![t] =
              [@ EXCEPT !.pc = "done",
                        !.agent = IF outcome.raised THEN "raised" ELSE "returned",
                        !.agentCalls = @ + 1,
                        !.steps = IF outcome.has_steps THEN outcome.steps ELSE <<>>,
                        !.status = r.status,
                        !.sql_query = r.sql_query,
                        !.result = r.result,
                        !.error = r.error,
                        !.context_from_vector_db = tasks[t].context]]
    /\ UNCHANGED <<apiKey, database, globals, collection, initPc, attempt, slept,
                   schema_docs, startups, extraction, health>>

---------------------------------------------------------------------------

Next ==
    \/ StartInitialize
    \/ InitModels
    \/ InitDbEngine
    \/ LoadSchemaDocuments
    \/ ConstructChroma
    \/ AddDocuments
    \/ Sleep
    \/ SetupQAChain
    \/ SetupSqlAgent
    \/ Restart
    \/ HealthCheck
    \/ \E t \in DOMAIN tasks : ReceiveQuery(t)
    \/ \E t \in DOMAIN tasks : Retrieve(t)
    \/ \E t \in DOMAIN tasks : RunAgent(t)

Spec == Init /\ [][Next]_vars


\* initialize_rag_components is sequential code: once called, each of its
\* steps is taken (every external call returns or raises, the sleep ends)
StartupStep ==
    \/ InitModels
    \/ InitDbEngine
    \/ LoadSchemaDocuments
    \/ ConstructChroma
    \/ AddDocuments
    \/ Sleep
    \/ SetupQAChain
    \/ SetupSqlAgent

FairSpec == Spec /\ WF_vars(StartupStep)

---------------------------------------------------------------------------
(* two requests in flight in one process                                   *)

ConcurrentTasks == {"t1", "t2"}

InitConcurrent ==
    /\ apiKey = TRUE
    /\ database = {2, 3, 4}
    /\ llm = FALSE /\ embeddings_model = FALSE /\ db_engine = FALSE
    /\ vectorstore = FALSE /\ qa_chain = FALSE /\ sql_agent_executor = FALSE
    /\ collection = <<>>
    /\ initPc = "not_started"
    /\ attempt = 0
    /\ slept = 0
    /\ schema_docs = <<>>
    /\ startups = 0
    /\ extraction = NoExtraction
    /\ tasks = [t \in ConcurrentTasks |-> IdleTask]
    /\ health = NoHealth

\* one process: its startup, then the event loop interleaving the requests
NextConcurrent ==
    \/ StartInitialize
    \/ InitModels
    \/ InitDbEngine
    \/ LoadSchemaDocuments
    \/ ConstructChroma
    \/ AddDocuments
    \/ Sleep
    \/ SetupQAChain
    \/ SetupSqlAgent
    \/ \E t \in DOMAIN tasks : ReceiveQuery(t)
    \/ \E t \in DOMAIN tasks : Retrieve(t)
    \/ \E t \in DOMAIN tasks : RunAgent(t)

SpecConcurrent == InitConcurrent /\ [][NextConcurrent]_vars

---------------------------------------------------------------------------
(* extract_metadata on its own, over every database of the catalog         *)

InitExtract ==
    /\ apiKey = TRUE
    /\ database \in Databases
    /\ llm = FALSE /\ embeddings_model = FALSE /\ db_engine = FALSE
    /\ vectorstore = FALSE /\ qa_chain = FALSE /\ sql_agent_executor = FALSE
    /\ collection = <<>>
    /\ initPc = "extract"
    /\ attempt = 0
    /\ slept = 0
    /\ schema_docs = <<>>
    /\ startups = 0
    /\ extraction = NoExtraction
    /\ tasks = [t \in Tasks |-> IdleTask]
    /\ health = NoHealth

\* a call extract_metadata(engine) on a connected engine
ExtractMetadata ==
    /\ initPc = "extract"
    /\ \E tablesOk \in BOOLEAN, viewsOk \in BOOLEAN :
        /\ extraction' = [connectOk |-> TRUE, tablesOk |-> tablesOk,
                          viewsOk |-> viewsOk]
        /\ schema_docs' = extract_metadata(database, tablesOk, viewsOk)
    /\ initPc' = "extracted"
    /\ UNCHANGED <<apiKey, database, globals, collection, attempt, slept,
                   startups, tasks, health>>

NextExtract == ExtractMetadata

SpecExtract == InitExtract /\ [][NextExtract]_vars

---------------------------------------------------------------------------
(* Properties                                                              *)

AllSix(s) ==
    /\ s.llm /\ s.embeddings_model /\ s.sql_database_engine
    /\ s.vector_store /\ s.qa_chain /\ s.sql_agent_executor

\* C1: every health response has status "ok" exactly when its six services
\* are initialized and both servers answered their probe, and then reports
\* both connections as "OK".
C1_HealthOkIffAllUp ==
    health.status # "none" =>
        /\ health.status = "ok"
              <=> (AllSix(health.services) /\ health.dbUp /\ health.chromaUp)
        /\ (AllSix(health.services) /\ health.dbUp /\ health.chromaUp)
              => /\ health.services.postgresql_connection = "OK"
                 /\ health.services.chromadb_connection = "OK"

\* the documents extraction yields when every query succeeds
FullSchemaDocs == OrPlaceholder(extract_metadata(database, TRUE, TRUE))

\* C3: when the retry loop is left by a successful attempt, the documents
\* indexed by that attempt are the full extracted schema document set (a
\* dependency failure in an attempt makes the attempt fail, never lose data);
\* and a startup whose fifth attempt failed has built neither the QA chain
\* nor the SQL agent.
C3_ReadyOnlyWithFullIndex ==
    /\ initPc \in {"qa", "agent"} =>
          /\ schema_docs = FullSchemaDocs
          /\ Len(collection) >= Len(schema_docs)
          /\ SubSeq(collection, Len(collection) - Len(schema_docs) + 1,
                    Len(collection)) = schema_docs
    /\ (initPc = "failed" /\ attempt + 1 = max_retries) =>
          ~qa_chain /\ ~sql_agent_executor

InLoop == initPc \in {"load", "chroma", "add", "sleep"}

Terminated == initPc \in {"ready", "failed"}

SelectedTables ==
    {i \in database : Catalog[i].kind = "table" /\ SchemaSelected(Catalog[i].schema)}

SelectedViews ==
    {i \in database : Catalog[i].kind = "view" /\ SchemaSelected(Catalog[i].schema)}

DocsAbout(i) ==
    {k \in 1..Len(schema_docs) :
        /\ Contains(schema_docs[k].page_content, Catalog[i].name)
        /\ Contains(schema_docs[k].page_content, Catalog[i].schema)}

\* C5: when both queries succeed on a database with N tables and M views
\* (N+M > 0) in selected schemas, extract_metadata returns N+M documents and
\* each table or view has exactly one document naming it and its schema.
C5_OneDocumentPerObject ==
    (/\ initPc = "extracted"
     /\ extraction.tablesOk /\ extraction.viewsOk
     /\ SelectedTables \cup SelectedViews # {})
    => /\ Len(schema_docs) = Cardinality(SelectedTables) + Cardinality(SelectedViews)
       /\ \A i \in SelectedTables \cup SelectedViews : Cardinality(DocsAbout(i)) = 1


Completed(t) == tasks[t].pc = "done"

\* C2: every response body of /query has exactly one of result and error
\* non-null.
C2_ExactlyOneOfResultError ==
    \A t \in DOMAIN tasks :
        Completed(t) => (IsNone(tasks[t].result) # IsNone(tasks[t].error))

\* C2 witness: retrieval failed, the agent returned, and SQL extraction made
\* the response an error
C2_ErrorAfterAgentReturned ==
    \E t \in DOMAIN tasks :
        /\ Completed(t)
        /\ tasks[t].retrieval = "raised" /\ tasks[t].agent = "returned"
        /\ ~IsNone(tasks[t].error) /\ IsNone(tasks[t].result)

\* the three shapes of a context string
IsSentinelContext(text) == text = <<"No context retrieved.">>

IsErrorContext(text) ==
    \E e \in RetrievalErrors :
        text = <<"Error retrieving context: ", e,
                 ". Proceeding without schema context.">>

IsJoinedContext(text) ==
    \E first \in 1..Len(collection), last \in 1..Len(collection) :
        /\ first <= last
        /\ text = Join(PageContents(SubSeq(collection, first, last)), <<"\n---\n">>)

PromptEmbeds(prompt, text) ==
    /\ Len(prompt) >= 2 + Len(text)
    /\ SubSeq(prompt, 3, 2 + Len(text)) = text

\* C6: from the start of the retrieval stage on, the context is a non-empty
\* string; after the stage it is the joined contents of retrieved documents,
\* the no-context sentinel or an error-annotated string, it is what the agent
\* prompt embeds, and it is what the response returns.
C6_ContextNeverEmpty ==
    \A t \in DOMAIN tasks :
        /\ tasks[t].pc \in {"retrieve", "agent", "done"} =>
              /\ tasks[t].context.type = "str"
              /\ tasks[t].context.text # <<>>
        /\ tasks[t].pc \in {"agent", "done"} =>
              /\ \/ IsSentinelContext(tasks[t].context.text)
                 \/ IsErrorContext(tasks[t].context.text)
                 \/ IsJoinedContext(tasks[t].context.text)
              /\ PromptEmbeds(tasks[t].prompt, tasks[t].context.text)
        /\ Completed(t) => tasks[t].context_from_vector_db = tasks[t].context

\* C6 witness: retrieval returned no documents and the response carries the
\* sentinel
C6_SentinelReturned ==
    \E t \in DOMAIN tasks :
        /\ Completed(t) /\ tasks[t].retrieval = "returned"
        /\ IsSentinelContext(tasks[t].context_from_vector_db.text)

\* C7: whenever the agent call returned normally, the response carries a
\* result and no error.
C7_AnswerAlwaysReturned ==
    \A t \in DOMAIN tasks :
        (Completed(t) /\ tasks[t].agent = "returned") =>
            ~IsNone(tasks[t].result) /\ IsNone(tasks[t].error)

\* C8: a request is rejected with 503 exactly when one of qa_chain,
\* sql_agent_executor and llm is missing as it arrives; a rejected request
\* has invoked neither retrieval nor the agent, and an accepted one never
\* has status 503.
C8_GateRejectsIffNotReady ==
    /\ [][\A t \in DOMAIN tasks :
            (tasks[t].pc = "idle" /\ tasks'[t].pc # "idle") =>
                IF qa_chain /\ sql_agent_executor /\ llm
                THEN tasks'[t].pc = "retrieve" /\ tasks'[t].status # 503
                ELSE tasks'[t].pc = "rejected" /\ tasks'[t].status = 503]_vars
    /\ [](\A t \in DOMAIN tasks :
            /\ tasks[t].pc = "rejected" =>
                  /\ tasks[t].status = 503
                  /\ tasks[t].retrieval = "none" /\ tasks[t].agent = "none"
                  /\ tasks[t].agentCalls = 0
            /\ tasks[t].pc \in {"retrieve", "agent", "done"} =>
                  tasks[t].status # 503)

\* C8 witness: a request rejected although llm is initialized
C8_RejectedWithLlmOnly ==
    \E t \in DOMAIN tasks : tasks[t].pc = "rejected" /\ llm /\ ~qa_chain

\* C9: after a retrieval failure the request goes on: the context is the
\* error message with the note that processing proceeds without schema
\* context, the agent prompt embeds it, and the request completes with a
\* response after one agent call.
C9_RetrievalFailureContained ==
    \A t \in DOMAIN tasks :
        tasks[t].retrieval = "raised" =>
            /\ tasks[t].pc \in {"agent", "done"}
            /\ tasks[t].retrievalError \in RetrievalErrors
            /\ tasks[t].context =
                  Str(<<"Error retrieving context: ", tasks[t].retrievalError,
                        ". Proceeding without schema context.">>)
            /\ PromptEmbeds(tasks[t].prompt, tasks[t].context.text)
            /\ Completed(t) =>
                  /\ tasks[t].agentCalls = 1
                  /\ tasks[t].status = 200
                  /\ tasks[t].context_from_vector_db = tasks[t].context

\* C9 witness: retrieval failed and the agent still produced the answer
C9_AnswerAfterRetrievalFailure ==
    \E t \in DOMAIN tasks :
        /\ Completed(t) /\ tasks[t].retrieval = "raised"
        /\ tasks[t].agent = "returned" /\ ~IsNone(tasks[t].result)

\* C10: a request whose agent stage raised completes with a response whose
\* error is set, whose result and sql_query are null, and whose context is
\* the context string the retrieval stage left.
C10_AgentFailureKeepsContext ==
    [][\A t \in DOMAIN tasks :
        (/\ tasks[t].pc = "agent" /\ tasks'[t].pc # "agent"
         /\ (tasks'[t].agent = "raised" \/ ~IsNone(tasks'[t].error)))
        => /\ tasks'[t].pc = "done" /\ tasks'[t].status = 200
           /\ ~IsNone(tasks'[t].error)
           /\ Head(tasks'[t].error.text) = "Error in SQL agent: "
           /\ IsNone(tasks'[t].result)
           /\ IsNone(tasks'[t].sql_query)
           /\ tasks'[t].context_from_vector_db = tasks[t].context
           /\ tasks'[t].context_from_vector_db.text # <<>>]_vars

\* C10 witness: the agent raised after retrieval had found documents
C10_AgentRaisedWithRealContext ==
    \E t \in DOMAIN tasks :
        /\ Completed(t) /\ tasks[t].agent = "raised"
        /\ tasks[t].retrieval = "returned"
        /\ ~IsSentinelContext(tasks[t].context_from_vector_db.text)
        /\ ~IsNone(tasks[t].error)


\* what load_schema_documents returned in the current attempt
LoadedDocs ==
    load_schema_documents(database, extraction.connectOk, extraction.tablesOk,
                          extraction.viewsOk)

\* C11: in every startup attempt, once the documents are loaded the list
\* handed to the vector store is non-empty: when extraction yielded nothing
\* it is exactly one document with non-empty content and source_type
\* "placeholder", otherwise it is what extraction yielded; every successful
\* add_documents call adds at least one document.
C11_PlaceholderSubstituted ==
    /\ [](initPc \in {"chroma", "add", "sleep", "qa", "agent"} =>
            /\ schema_docs # <<>>
            /\ LoadedDocs = <<>> =>
                  /\ Len(schema_docs) = 1
                  /\ schema_docs[1].page_content # <<>>
                  /\ \A i \in 1..Len(schema_docs[1].page_content) :
                        schema_docs[1].page_content[i] # ""
                  /\ schema_docs[1].metadata.source_type = "placeholder"
            /\ LoadedDocs # <<>> => schema_docs = LoadedDocs)
    /\ [][collection' # collection =>
            /\ schema_docs # <<>>
            /\ Len(collection') > Len(collection)]_vars

\* C11 witness: both queries ran on a database without selected relations
\* and the placeholder was indexed
C11_PlaceholderIndexed ==
    /\ initPc = "qa"
    /\ extraction.connectOk /\ extraction.tablesOk /\ extraction.viewsOk
    /\ database # {}
    /\ schema_docs = <<PlaceholderDocument>>
    /\ collection # <<>> /\ collection[Len(collection)] = PlaceholderDocument

IsTableDoc(d) == d.metadata.source_type = "table"

IsViewDoc(d) == d.metadata.source_type = "view"

\* C12: extract_metadata always returns; the table documents in its result
\* are those of the table query when that query succeeded and none when it
\* failed, the view documents are those of the view query when that query
\* succeeded and none when it failed, whatever the other query did.
C12_StepsFailIndependently ==
    /\ initPc = "extract" => ENABLED ExtractMetadata
    /\ initPc = "extracted" =>
        LET tableDocs == IF extraction.tablesOk
                         THEN TableDocuments(GroupRows(TableColumnQuery(database, 1), <<>>))
                         ELSE <<>>
            viewDocs == IF extraction.viewsOk
                        THEN ViewDocuments(ViewQuery(database, 1))
                        ELSE <<>>
        IN /\ SelectSeq(schema_docs, IsTableDoc) = tableDocs
           /\ SelectSeq(schema_docs, IsViewDoc) = viewDocs
           /\ Len(schema_docs) = Len(tableDocs) + Len(viewDocs)

\* C12 witness: the table query failed and the view documents were returned
C12_ViewsAfterTableFailure ==
    /\ initPc = "extracted"
    /\ ~extraction.tablesOk /\ extraction.viewsOk
    /\ TableColumnQuery(database, 1) # <<>>
    /\ schema_docs # <<>>

\* C13: without OPENAI_API_KEY none of the six globals is ever set, no
\* extraction runs, nothing is added to the collection and the startup never
\* becomes ready.
C13_MissingKeyIsFatal ==
    /\ [](~apiKey =>
            /\ ~llm /\ ~embeddings_model /\ ~db_engine
            /\ ~vectorstore /\ ~qa_chain /\ ~sql_agent_executor
            /\ initPc \in {"not_started", "failed"}
            /\ extraction = NoExtraction
            /\ schema_docs = <<>>)
    /\ [][~apiKey => collection' = collection]_vars

\* C13 witness: initialization ended as failed at the key check
C13_FailedAtKeyCheck ==
    ~apiKey /\ initPc = "failed"

\* the six component entries of a response, none initialized
NoneOfSix(s) ==
    /\ ~s.llm /\ ~s.embeddings_model /\ ~s.sql_database_engine
    /\ ~s.vector_store /\ ~s.qa_chain /\ ~s.sql_agent_executor

ProbeFailed(s) ==
    s.postgresql_connection # "OK" \/ s.chromadb_connection # "OK"

\* C14: health_check always returns a response; its status is one of "ok",
\* "degraded" and "error"; it is "error" exactly when none of the six
\* components is initialized and "degraded" exactly when some component is
\* initialized and either some component is not or a probe did not report
\* "OK".
C14_HealthStatusPartition ==
    /\ Serving => ENABLED HealthCheck
    /\ health.status # "none" =>
        /\ health.status \in {"ok", "degraded", "error"}
        /\ health.status = "error" <=> NoneOfSix(health.services)
        /\ health.status = "degraded" <=>
              /\ ~NoneOfSix(health.services)
              /\ ~AllSix(health.services) \/ ProbeFailed(health.services)

\* C14 witness: a degraded response of a partly initialized process whose
\* vector store answered the heartbeat
C14_DegradedWhenPartlyInitialized ==
    /\ health.status = "degraded"
    /\ health.services.vector_store /\ ~health.services.qa_chain
    /\ health.services.chromadb_connection = "OK"


\* C15: a step of one request changes no other request's state and none of
\* the shared components or the collection; what a request holds is derived
\* from its own query and its own retrieval and agent outcomes: its context
\* is the one its retrieval stage left, its prompt embeds that context and
\* its own query, and its response returns that context.
C15_QueriesDoNotInterfere ==
    /\ [][\A t \in DOMAIN tasks :
            tasks'[t] # tasks[t] =>
                /\ \A u \in DOMAIN tasks \ {t} : tasks'[u] = tasks[u]
                /\ globals' = globals
                /\ collection' = collection
                /\ initPc' = initPc]_vars
    /\ [](\A t \in DOMAIN tasks :
            /\ tasks[t].pc \in {"agent", "done"} =>
                  /\ tasks[t].query \in Queries
                  /\ tasks[t].retrieval = "raised" =>
                        tasks[t].context.text =
                            <<"Error retrieving context: ", tasks[t].retrievalError,
                              ". Proceeding without schema context.">>
                  /\ tasks[t].retrieval = "returned" =>
                        \/ IsSentinelContext(tasks[t].context.text)
                        \/ IsJoinedContext(tasks[t].context.text)
                  /\ PromptEmbeds(tasks[t].prompt, tasks[t].context.text)
                  /\ Contains(tasks[t].prompt, tasks[t].query)
                  /\ \A q \in Queries \ {tasks[t].query} : ~Contains(tasks[t].prompt, q)
            /\ Completed(t) =>
                  /\ tasks[t].context_from_vector_db = tasks[t].context
                  /\ tasks[t].agent = "raised" =>
                        ~IsNone(tasks[t].error) /\ IsNone(tasks[t].result)
                  /\ tasks[t].agent = "returned" /\ IsNone(tasks[t].error) =>
                        ~IsNone(tasks[t].result) /\ ~IsNone(tasks[t].sql_query))

\* C15 witness: of two requests with different queries answered by one
\* process, one failed in both stages and the other got its answer with a
\* retrieved context
C15_OneFailsOtherAnswers ==
    \E t \in DOMAIN tasks, u \in DOMAIN tasks :
        /\ t # u /\ Completed(t) /\ Completed(u)
        /\ tasks[t].query # tasks[u].query
        /\ tasks[t].retrieval = "raised" /\ tasks[t].agent = "raised"
        /\ tasks[u].retrieval = "returned" /\ tasks[u].agent = "returned"
        /\ IsNone(tasks[u].error)
        /\ ~IsSentinelContext(tasks[u].context_from_vector_db.text)


\* the number of separators "\n---\n" in a context string
SeparatorCount(text) ==
    Cardinality({i \in 1..Len(text) : text[i] = "\n---\n"})

\* C16: whatever the size of the collection, a context built from retrieved
\* documents joins the contents of at most K documents of the collection,
\* in the order the index returned them.
C16_AtMostKDocuments ==
    \A t \in DOMAIN tasks :
        (tasks[t].pc \in {"agent", "done"} /\ tasks[t].retrieval = "returned") =>
            /\ SeparatorCount(tasks[t].context.text) <= K - 1
            /\ \/ IsSentinelContext(tasks[t].context.text)
               \/ \E first \in 1..Len(collection), last \in 1..Len(collection) :
                     /\ first <= last /\ last - first + 1 <= K
                     /\ tasks[t].context.text =
                           Join(PageContents(SubSeq(collection, first, last)),
                                <<"\n---\n">>)

\* C16 witness: K documents retrieved from a collection that holds more
C16_KOfMoreRetrieved ==
    \E t \in DOMAIN tasks :
        /\ Completed(t) /\ tasks[t].retrieval = "returned"
        /\ Len(collection) > K
        /\ SeparatorCount(tasks[t].context_from_vector_db.text) = K - 1


\* the steps of a trace with a structured call of the SQL-execution tool,
\* and those whose log text matches the invocation pattern
SqlToolSteps(steps) ==
    {i \in 1..Len(steps) : steps[i].has_tool /\ steps[i].tool = "sql_db_query"}

LogPatternSteps(steps) ==
    {i \in 1..Len(steps) : steps[i].has_log /\ LogMatches(steps[i].log)}

First(indices) == CHOOSE i \in indices : \A j \in indices : i <= j

\* C17: a successful response always carries an sql_query; it is the tool
\* input of the first step of the trace that calls sql_db_query when there
\* is such a step, the SQL taken from the first matching log text only when
\* there is none, and the not-extracted sentinel when there is neither.
C17_FirstSqlToolStepReported ==
    \A t \in DOMAIN tasks :
        (Completed(t) /\ tasks[t].agent = "returned" /\ IsNone(tasks[t].error)) =>
            LET steps == tasks[t].steps
                tool  == SqlToolSteps(steps)
                log   == LogPatternSteps(steps)
            IN /\ ~IsNone(tasks[t].sql_query)
               /\ tool # {} => tasks[t].sql_query = steps[First(tool)].tool_input
               /\ (tool = {} /\ log # {}) =>
                     tasks[t].sql_query = Str(SqlFromLog(steps[First(log)].log))
               /\ (tool = {} /\ log = {}) => tasks[t].sql_query = Str(NotExtracted)


\* C18: in every request the retrieval stage runs once and has finished,
\* by returning or by a caught failure, before the agent is called; the agent
\* is called at most once, with a prompt that embeds the context the
\* retrieval stage of the same request left, and the call ends the request.
C18_RetrievalThenOneAgentCall ==
    /\ [](\A t \in DOMAIN tasks :
            /\ tasks[t].agentCalls \in {0, 1}
            /\ tasks[t].agentCalls = 1 <=> tasks[t].pc = "done"
            /\ tasks[t].agent # "none" <=> tasks[t].pc = "done"
            /\ tasks[t].retrieval \in {"raised", "returned"}
                  <=> tasks[t].pc \in {"agent", "done"}
            /\ tasks[t].pc \in {"agent", "done"} =>
                  PromptEmbeds(tasks[t].prompt, tasks[t].context.text))
    /\ [][\A t \in DOMAIN tasks :
            /\ (tasks'[t].agentCalls # tasks[t].agentCalls /\ tasks'[t].pc # "idle") =>
                  /\ tasks[t].pc = "agent" /\ tasks'[t].pc = "done"
                  /\ tasks[t].retrieval \in {"raised", "returned"}
                  /\ tasks'[t].retrieval = tasks[t].retrieval
                  /\ tasks'[t].context = tasks[t].context
                  /\ tasks'[t].prompt = tasks[t].prompt
            /\ (tasks'[t].retrieval # tasks[t].retrieval /\ tasks'[t].pc # "idle") =>
                  /\ tasks[t].pc = "retrieve" /\ tasks'[t].pc = "agent"
                  /\ tasks[t].retrieval = "none"
                  /\ tasks'[t].agentCalls = 0]_vars

\* C18 witness: both stages failed and each was tried once
C18_BothStagesFailedOnce ==
    \E t \in DOMAIN tasks :
        /\ Completed(t) /\ tasks[t].agentCalls = 1
        /\ tasks[t].retrieval = "raised" /\ tasks[t].agent = "raised"


\* C19: once the add_documents call of a startup has succeeded, the
\* collection holds the entries it held before the first startup and n*d
\* more, d being the number of documents of the unchanged schema and n the
\* number of successful startups (at least one, at most the number of
\* process starts).
C19_CollectionHoldsNTimesD ==
    initPc \in {"qa", "agent", "ready"} =>
        \E prior \in PriorCollections, n \in 1..(startups + 1) :
            Len(collection) = Len(prior) + n * Len(FullSchemaDocs)

\* C20: the six globals change only in steps of initialize_rag_components
\* (and when the process is replaced); every step of handle_query and of
\* health_check leaves all six as they were.
C20_HandlersLeaveGlobals ==
    /\ [][globals' # globals =>
            \/ initPc \in {"models", "db", "chroma", "qa", "agent"}
            \/ initPc \in {"ready", "failed"} /\ initPc' = "not_started"]_vars
    /\ [][((tasks' # tasks \/ health' # health) /\ initPc' = initPc) =>
            globals' = globals]_vars

\* C20 witness: a request failed in both stages and a health probe failed
\* while all six components stayed initialized
C20_AllSetAfterFailures ==
    /\ llm /\ embeddings_model /\ db_engine /\ vectorstore /\ qa_chain
    /\ sql_agent_executor
    /\ health.status = "degraded" /\ ~health.chromaUp
    /\ \E t \in DOMAIN tasks :
          /\ Completed(t)
          /\ tasks[t].retrieval = "raised" /\ tasks[t].agent = "raised"


\* C21: at every point of a process, sql_agent_executor set implies
\* qa_chain set, qa_chain set implies vectorstore set after the add_documents
\* call of this startup succeeded, and vectorstore set implies db_engine,
\* llm and embeddings_model set; the QA chain is built only after that
\* successful call, and a request passes the readiness gate only when
\* initialize_rag_components has returned.
C21_ComponentsInDependencyOrder ==
    /\ [](/\ sql_agent_executor => qa_chain
          /\ qa_chain =>
                /\ vectorstore
                /\ initPc \in {"agent", "ready"}
                /\ collection # <<>>
          /\ vectorstore => (db_engine /\ llm /\ embeddings_model)
          /\ db_engine => llm /\ embeddings_model
          /\ \A t \in DOMAIN tasks :
                tasks[t].pc \in {"retrieve", "agent", "done"} => initPc = "ready")
    /\ [][(initPc' = "qa" /\ initPc # "qa") =>
            /\ initPc = "add"
            /\ schema_docs # <<>>
            /\ collection' = collection \o schema_docs]_vars
    /\ [][(qa_chain' /\ ~qa_chain) => initPc = "qa"]_vars
    /\ [][\A t \in DOMAIN tasks :
            (tasks[t].pc = "idle" /\ tasks'[t].pc = "retrieve") =>
                /\ initPc = "ready"
                /\ llm /\ embeddings_model /\ db_engine /\ vectorstore
                /\ qa_chain /\ sql_agent_executor]_vars

\* C21 witness: a request passed the gate of a fully initialized process
\* whose collection holds several documents
C21_AcceptedWhenFullyInitialized ==
    /\ initPc = "ready"
    /\ sql_agent_executor /\ qa_chain /\ vectorstore /\ db_engine
    /\ Len(collection) > 1
    /\ \E t \in DOMAIN tasks : tasks[t].pc = "retrieve"


\* C22: the call of load_schema_documents always returns to the loop body,
\* which goes on to the Chroma constructor in the same attempt without a
\* sleep; when the connection could not be established or both queries
\* failed, the attempt holds exactly the placeholder document, and when the
\* vector store then accepts it the loop is left with only the placeholder
\* added to the collection.
C22_ExtractionFailureIsSwallowed ==
    /\ [][(initPc = "load" /\ initPc' # "load") =>
            /\ initPc' = "chroma"
            /\ attempt' = attempt /\ slept' = slept
            /\ schema_docs' # <<>>]_vars
    /\ []((/\ initPc \in {"chroma", "add", "sleep", "qa", "agent"}
           /\ ~extraction.connectOk \/ (~extraction.tablesOk /\ ~extraction.viewsOk))
            => schema_docs = <<PlaceholderDocument>>)
    /\ [][(initPc = "add" /\ initPc' = "qa" /\ ~extraction.connectOk) =>
            collection' = Append(collection, PlaceholderDocument)]_vars

\* C22 witness: the connection was refused in the first attempt of a startup
\* against a database with tables, and the loop was left with an index that
\* holds the placeholder only
C22_ReadyWithPlaceholderOnly ==
    /\ initPc = "agent" /\ attempt = 0 /\ slept = 0
    /\ ~extraction.connectOk
    /\ extract_metadata(database, TRUE, TRUE) # <<>>
    /\ qa_chain
    /\ collection = <<PlaceholderDocument>>


\* initialize_rag_components raised out of the last attempt of the loop
Exhausted == initPc = "failed" /\ attempt = max_retries - 1

\* C23: the loop is left as failed only by a failing last attempt; the
\* process is then left with llm, embeddings_model and db_engine set,
\* qa_chain and sql_agent_executor unset (vectorstore either way), every
\* request it has received was rejected with 503 before retrieval, and a
\* health response given in that state is "degraded", never "ok".
C23_ExhaustedStartupRejectsQueries ==
    /\ [][(InLoop /\ initPc' = "failed") =>
            /\ initPc \in {"chroma", "add"}
            /\ Exhausted'
            /\ slept' = retry_delay * (max_retries - 1)
            /\ collection' = collection]_vars
    /\ [](Exhausted =>
            /\ llm /\ embeddings_model /\ db_engine
            /\ ~qa_chain /\ ~sql_agent_executor
            /\ \A t \in DOMAIN tasks :
                  tasks[t].pc # "idle" =>
                      /\ tasks[t].pc = "rejected" /\ tasks[t].status = 503
                      /\ tasks[t].retrieval = "none" /\ tasks[t].agentCalls = 0
            /\ health.status # "ok"
            /\ health.services.llm =>
                  /\ health.status = "degraded"
                  /\ ~health.services.qa_chain
                  /\ ~health.services.sql_agent_executor)
    /\ [][(Exhausted /\ Exhausted') =>
            /\ globals' = globals
            /\ \A t \in DOMAIN tasks :
                  tasks'[t] # tasks[t] => tasks'[t].pc = "rejected"
            /\ health' # health => health'.status = "degraded"]_vars

\* C23 witness: the fifth attempt failed in add_documents, so vectorstore
\* is set; a request was rejected and a health response says degraded
\* although both servers answered
C23_RejectedAfterExhaustion ==
    /\ Exhausted /\ vectorstore /\ ~qa_chain
    /\ health.status = "degraded" /\ health.services.vector_store
    /\ health.dbUp /\ health.chromaUp
    /\ \E t \in DOMAIN tasks : tasks[t].pc = "rejected" /\ tasks[t].status = 503

=============================================================================
